---- MODULE Spec2Model ----
(***************************************************************************)
(* Ride joining, seat reservation and payment reconciliation of the        *)
(* rideshare backend (RideService, PaymentService and their handlers),     *)
(* over one ride row, its participants and its payments.                   *)
(*                                                                         *)
(* The database is PostgreSQL at READ COMMITTED: a statement reads the     *)
(* rows committed when it starts and a transaction's writes become visible *)
(* at its commit.  SELECT ... FOR UPDATE on the ride row is held until the *)
(* transaction ends, and DELETE of the ride row waits for it.              *)
(***************************************************************************)
EXTENDS Integers, FiniteSets, Sequences, TLC

\* ------------------------------------------------------------- bounds
MaxUsers == 3
MaxSeats == 1
MaxReq == 2
MaxIntents == 2
AutoReq == 4

Users == 1..MaxUsers
Creators == {1}
\* the users whose card setup completes
CardUsers == {MaxUsers}
Slots == 1..MaxReq

\* ---------------------------------------------------------- constants
RideStatusActive == "active"
RideStatusArchived == "archived"
RideStatusCancelled == "cancelled"
ParticipantStatusPendingPayment == "pending_payment"
ParticipantStatusActive == "active"
ParticipantStatusLeft == "left"
ParticipantStatusCancelledRide == "cancelled_ride"
PaymentStatusPending == "pending"
PaymentStatusSucceeded == "succeeded"
PaymentStatusFailed == "failed"

\* the fixed amount (in cents) and currency of a join
fixedPaymentAmount == 200
paymentCurrency == "eur"

\* the error texts the services return (nil is the empty string)
ErrNil == ""
ErrRideNotFound == "ride not found"
ErrNotActiveJoin == "ride is not active for joining"
ErrNotOpen == "ride is not open for joining"
ErrFull == "ride is already full"
ErrSelfJoin == "you cannot join your own ride"
ErrAlreadyJoinedPending == "you have already joined this ride or payment is pending"
ErrAlreadyJoined == "you have already joined this ride"
ErrUnexpectedStatus == "unexpected participation status: "
ErrRecordParticipation == "failed to record participation: "
ErrNoPaymentMethod == "user has no saved default payment method"
ErrAlreadyParticipating == "user already participating with status: "
ErrPaymentFailed == "payment failed: "
ErrPaymentConfirmation == "payment confirmation failed with status: "
ErrNotParticipant == "you are not currently an active participant in this ride"
ErrNotJoined == "user has not joined this ride or participation record not found"
ErrCannotCreatePayment == "cannot create payment for participation with status: "
ErrStripeCreate == "failed to create payment intent with Stripe: "
ErrSaveTransaction == "failed to save transaction record: "
ErrSignature == "webhook signature verification failed: "
ErrNoParticipantForPI == "could not find participant for PI "
ErrUnauthorizedDelete == "unauthorized to delete this ride"
ErrNotDeleted == "ride not found or could not be deleted"
ErrRejoinUpdate == "failed to update participation status for rejoin: "
ErrDeleteRide == "failed to delete ride: "

ErrInsertPayment == "database error inserting payment: "
ErrFinalize == "critical error: failed to finalize participation records"

ErrUnauthorizedContacts == "unauthorized to view contacts for this ride"

VARIABLES ride, participants, payments, hasPaymentMethod, intents, rideLock, req

vars == <<ride, participants, payments, hasPaymentMethod, intents, rideLock, req>>

db == <<ride, participants, payments, hasPaymentMethod>>

\* ------------------------------------------------------------ records
NoRide == [present |-> FALSE, user_id |-> 0, total_seats |-> 0, status |-> "none"]
DeletedRide == [present |-> FALSE, user_id |-> 0, total_seats |-> 0, status |-> "deleted"]

Idle == [op |-> "idle", pc |-> "idle", user |-> 0, pid |-> 0, cnt |-> 0,
         intent |-> 0, rows |-> 0, contacts |-> {}, err |-> ErrNil]

\* ------------------------------------------------------------ queries
\* SELECT COUNT(*) FROM participants WHERE ride_id = $1 AND status = 'active'
ActiveCount(rows) == Cardinality({p \in rows : p.status = ParticipantStatusActive})

\* the lookup were it to skip the rows in status left
RowsOf_NotLeft(rows, u) == {p \in rows : p.user_id = u /\ p.status # ParticipantStatusLeft}

\* SELECT id, status FROM participants WHERE user_id = $1 AND ride_id = $2
RowsOf(rows, u) == {p \in rows : p.user_id = u}

\* uuid.New(): an id no row carries
NewId(rows) == IF rows = {} THEN 1
               ELSE 1 + CHOOSE m \in {p.id : p \in rows} : \A p \in rows : p.id <= m

\* CONSTRAINT unique_user_ride UNIQUE (user_id, ride_id)
UniqueUserRide(rows, u) == RowsOf(rows, u) = {}

\* INSERT INTO participants: refused when the constraint is violated
InsertParticipant(rows, row) ==
    IF UniqueUserRide(rows, row.user_id) THEN rows \cup {row} ELSE rows

SetStatus(rows, id, st) ==
    {IF p.id = id THEN [p EXCEPT !.status = st] ELSE p : p \in rows}

SetPayment(rows, i, st) ==
    {IF p.intent = i THEN [p EXCEPT !.status = st] ELSE p : p \in rows}

\* ----------------------------------------------------------- requests
Finish(r, u, o, e) ==
    req' = [req EXCEPT ![r] = [Idle EXCEPT !.op = o, !.pc = "done", !.user = u, !.err = e]]

\* a webhook event of intent i is answered; n rows were affected
FinishEvent(r, o, i, n, e) ==
    req' = [req EXCEPT ![r] = [Idle EXCEPT !.op = o, !.pc = "done", !.intent = i, !.rows = n, !.err = e]]

\* a handler's answer leaves before any request runs its next statement:
\* answering changes no row
NoneDone == \A s \in DOMAIN req : req[s].pc # "done"

\* a request arrives on a free slot: the lowest one, or the slot that waits
\* for a request of user u
Arrives(r, u) ==
    /\ NoneDone
    /\ req[r].pc = "idle"
    /\ IF req[r].user = 0
         THEN \A s \in DOMAIN req : s < r => req[s].pc # "idle"
         ELSE req[r].user = u

Step(r, label) == NoneDone /\ req[r].pc = label

\* ------------------------------------------------------------ handlers
StatusOK == 200
StatusBadRequest == 400
StatusPaymentRequired == 402
StatusNotFound == 404
StatusConflict == 409
StatusInternalServerError == 500

\* RideHandler.JoinRide: the switch on the service's error text
RideHandler_JoinRide(e) ==
    IF e = ErrNil THEN StatusOK
    ELSE IF e = "ride not found" THEN StatusNotFound
    ELSE IF e \in {"ride is not open for joining", "ride is already full",
                   "you cannot join your own ride", "you have already joined this ride"}
      THEN StatusConflict
    ELSE StatusInternalServerError

\* PaymentHandler.JoinRideAutomatically: the switch on the service's error text
PaymentHandler_JoinRideAutomatically(e) ==
    IF e = ErrNil THEN StatusOK
    ELSE IF e = "user not found" THEN StatusNotFound
    ELSE IF e \in {"ride is full", "already joined", "cannot join your own ride", "payment failed"}
      THEN StatusConflict
    ELSE IF e = "user has no saved payment method setup" THEN StatusPaymentRequired
    ELSE StatusInternalServerError

\* RideHandler.LeaveRide
RideHandler_LeaveRide(e) ==
    IF e = ErrNil THEN StatusOK
    ELSE IF e = "could not leave ride: participation not found or already left/cancelled"
      THEN StatusConflict
    ELSE StatusInternalServerError

StatusForbidden == 403

\* RideHandler.DeleteRide: the status of the service's error text
RideHandler_DeleteRide(e) ==
    IF e = ErrNil THEN StatusOK
    ELSE IF e = "ride not found" THEN StatusNotFound
    ELSE IF e = "unauthorized to delete this ride" THEN StatusForbidden
    ELSE StatusInternalServerError

\* PaymentHandler.CreatePaymentIntent: the comparison with the service's
\* error text (the service appends the status to its second text)
PaymentHandler_CreatePaymentIntent(e) ==
    IF e = ErrNil THEN StatusOK
    ELSE IF e \in {"user has not joined this ride or participation record not found",
                   "cannot create payment for participation with status"}
      THEN StatusConflict
    ELSE StatusInternalServerError

\* PaymentHandler.HandleStripeWebhook
PaymentHandler_HandleStripeWebhook(e) ==
    IF e = ErrNil THEN StatusOK ELSE StatusBadRequest

\* --------------------------------------------------------------- Init
Init ==
    /\ ride = NoRide
    /\ participants = {}
    /\ payments = {}
    /\ hasPaymentMethod = {}
    /\ intents = 0
    /\ rideLock = 0
    /\ req = [r \in Slots |-> Idle]

\* --------------------------------------------------------- CreateRide
CreateRide(u, n) ==
    /\ NoneDone
    /\ ride.status = "none"
    /\ ride' = [present |-> TRUE, user_id |-> u, total_seats |-> n, status |-> RideStatusActive]
    /\ UNCHANGED <<participants, payments, hasPaymentMethod, intents, rideLock, req>>

\* the external sweep that archives a ride whose departure is past
ArchiveRide ==
    /\ NoneDone
    /\ ride.present /\ ride.status = RideStatusActive
    /\ rideLock = 0
    /\ ride' = [ride EXCEPT !.status = RideStatusArchived]
    /\ UNCHANGED <<participants, payments, hasPaymentMethod, intents, rideLock, req>>

\* ----------------------------------------------------------- JoinRide
\* SELECT ... FROM rides WHERE id = $1 FOR UPDATE, then the status check
JoinRideLock(r, u) ==
    /\ Arrives(r, u)
    /\ IF ~ride.present
         THEN Finish(r, u, "JoinRide", ErrRideNotFound) /\ UNCHANGED rideLock
         ELSE /\ rideLock = 0
              /\ IF ride.status # RideStatusActive
                   THEN Finish(r, u, "JoinRide", ErrNotActiveJoin) /\ UNCHANGED rideLock
                   ELSE /\ rideLock' = r
                        /\ req' = [req EXCEPT ![r] = [Idle EXCEPT !.op = "JoinRide", !.pc = "jr_tx", !.user = u]]
    /\ UNCHANGED <<db, intents>>

\* the checks without the capacity check
JoinRideChecks_NoCapacity(u) ==
    IF ride.user_id = u THEN ErrSelfJoin
    ELSE ErrNil

\* the checks were the capacity check to count every row that has not left
JoinRideChecks_CountsPending(u) ==
    IF Cardinality({p \in participants : p.status # ParticipantStatusLeft}) >= ride.total_seats THEN ErrFull
    ELSE IF ride.user_id = u THEN ErrSelfJoin
    ELSE ErrNil

\* JoinRide's checks under the ride lock: capacity, then self-join
JoinRideChecks(u) ==
    IF ActiveCount(participants) >= ride.total_seats THEN ErrFull
    ELSE IF ride.user_id = u THEN ErrSelfJoin
    ELSE ErrNil

\* the transaction were it to write the participant row before its checks and
\* to commit although a check fails
JoinRideTx_InsertFirst(r) ==
    LET u == req[r].user
        found == RowsOf(participants, u)
        row == CHOOSE p \in found : TRUE
    IN
    /\ Step(r, "jr_tx")
    /\ IF JoinRideChecks(u) # ErrNil
         THEN /\ Finish(r, u, "JoinRide", JoinRideChecks(u))
              /\ participants' = InsertParticipant(participants,
                    [id |-> NewId(participants), user_id |-> u, status |-> ParticipantStatusPendingPayment])
       ELSE IF found # {}
         THEN IF row.status = ParticipantStatusLeft
                THEN /\ participants' = SetStatus(participants, row.id, ParticipantStatusPendingPayment)
                     /\ Finish(r, u, "JoinRide", ErrNil)
                ELSE /\ Finish(r, u, "JoinRide", ErrAlreadyJoinedPending)
                     /\ UNCHANGED participants
         ELSE /\ participants' = InsertParticipant(participants,
                    [id |-> NewId(participants), user_id |-> u, status |-> ParticipantStatusPendingPayment])
              /\ Finish(r, u, "JoinRide", ErrNil)
    /\ rideLock' = 0
    /\ UNCHANGED <<ride, payments, hasPaymentMethod, intents>>

\* the checks, the existing-participation check, the UPDATE or INSERT, the commit
JoinRideTx(r) ==
    LET u == req[r].user
        found == RowsOf(participants, u)
        row == CHOOSE p \in found : TRUE
    IN
    /\ Step(r, "jr_tx")
    /\ IF JoinRideChecks(u) # ErrNil
         THEN /\ Finish(r, u, "JoinRide", JoinRideChecks(u))
              /\ UNCHANGED participants
       ELSE IF found # {}
         THEN IF row.status \in {ParticipantStatusActive, ParticipantStatusPendingPayment}
                THEN /\ Finish(r, u, "JoinRide", ErrAlreadyJoinedPending)
                     /\ UNCHANGED participants
              ELSE IF row.status = ParticipantStatusLeft
                THEN /\ participants' = SetStatus(participants, row.id, ParticipantStatusPendingPayment)
                     /\ Finish(r, u, "JoinRide", ErrNil)
              ELSE /\ Finish(r, u, "JoinRide", ErrUnexpectedStatus)
                   /\ UNCHANGED participants
         ELSE /\ participants' = InsertParticipant(participants,
                    [id |-> NewId(participants), user_id |-> u, status |-> ParticipantStatusPendingPayment])
              /\ Finish(r, u, "JoinRide",
                        IF UniqueUserRide(participants, u) THEN ErrNil ELSE ErrRecordParticipation)
    /\ rideLock' = 0
    /\ UNCHANGED <<ride, payments, hasPaymentMethod, intents>>

\* ---------------------------------------------------------- LeaveRide
LeaveRide(r, u) ==
    LET hit == {p \in RowsOf(participants, u) :
                  p.status \in {ParticipantStatusActive, ParticipantStatusPendingPayment}}
    IN
    /\ Arrives(r, u)
    /\ participants' = {IF p \in hit THEN [p EXCEPT !.status = ParticipantStatusLeft] ELSE p : p \in participants}
    /\ IF hit # {} THEN Finish(r, u, "LeaveRide", ErrNil)
       ELSE IF ~ride.present THEN Finish(r, u, "LeaveRide", ErrRideNotFound)
       ELSE Finish(r, u, "LeaveRide", ErrNotParticipant)
    /\ UNCHANGED <<ride, payments, hasPaymentMethod, intents, rideLock>>

\* ---------------------------------------------- JoinRideAutomatically
\* the ride query without FOR UPDATE: it waits for no other transaction
ValidateLock_NoLock(r, u) ==
    /\ Arrives(r, u)
    /\ IF ~ride.present
         THEN Finish(r, u, "JoinRideAutomatically", ErrRideNotFound) /\ UNCHANGED rideLock
         ELSE IF ride.status # RideStatusActive
                THEN Finish(r, u, "JoinRideAutomatically", ErrNotOpen) /\ UNCHANGED rideLock
                ELSE /\ rideLock' = r
                     /\ req' = [req EXCEPT ![r] = [Idle EXCEPT !.op = "JoinRideAutomatically",
                                                                !.pc = "ja_tx", !.user = u]]
    /\ UNCHANGED <<db, intents>>

\* ValidateRideForJoiningTx: the lock query and the status check
ValidateLock(r, u) ==
    /\ Arrives(r, u)
    /\ IF ~ride.present
         THEN Finish(r, u, "JoinRideAutomatically", ErrRideNotFound) /\ UNCHANGED rideLock
         ELSE /\ rideLock = 0
              /\ IF ride.status # RideStatusActive
                   THEN Finish(r, u, "JoinRideAutomatically", ErrNotOpen) /\ UNCHANGED rideLock
                   ELSE /\ rideLock' = r
                        /\ req' = [req EXCEPT ![r] = [Idle EXCEPT !.op = "JoinRideAutomatically",
                                                                   !.pc = "ja_tx", !.user = u]]
    /\ UNCHANGED <<db, intents>>

\* ValidateRideForJoiningTx under the ride lock: capacity, self-join, and the
\* caller's own active participation
ValidateRideForJoiningTx(u) ==
    IF ActiveCount(participants) >= ride.total_seats THEN ErrFull
    ELSE IF ride.user_id = u THEN ErrSelfJoin
    ELSE IF ActiveCount(RowsOf(participants, u)) > 0 THEN ErrAlreadyJoined
    ELSE ErrNil

\* the validation, the stored payment method, the existing-participation check,
\* and the UPDATE (a rejoin: no charge, committed at once) or the staged INSERT
AutoParticipant(r) ==
    LET u == req[r].user
        found == RowsOf(participants, u)
        row == CHOOSE p \in found : TRUE
        fail(e) == /\ Finish(r, u, "JoinRideAutomatically", e)
                   /\ rideLock' = 0
                   /\ UNCHANGED participants
    IN
    /\ Step(r, "ja_tx")
    /\ IF ValidateRideForJoiningTx(u) # ErrNil THEN fail(ValidateRideForJoiningTx(u))
       ELSE IF u \notin hasPaymentMethod THEN fail(ErrNoPaymentMethod)
       ELSE IF found # {}
         THEN IF row.status \in {ParticipantStatusActive, ParticipantStatusPendingPayment}
                THEN fail(ErrAlreadyParticipating)
              ELSE IF row.status = ParticipantStatusLeft
                THEN \* needsPayment = false
                     /\ participants' = SetStatus(participants, row.id, ParticipantStatusActive)
                     /\ Finish(r, u, "JoinRideAutomatically", ErrNil)
                     /\ rideLock' = 0
              ELSE fail(ErrUnexpectedStatus)
         ELSE /\ req' = [req EXCEPT ![r].pc = "ja_charge", ![r].pid = NewId(participants)]
              /\ UNCHANGED <<participants, rideLock>>
    /\ UNCHANGED <<ride, payments, hasPaymentMethod, intents>>

\* the charge step were the participant INSERT committed whatever the charge
AutoCharge_NoRollback(r, outcome) ==
    LET u == req[r].user IN
    /\ Step(r, "ja_charge")
    /\ participants' = InsertParticipant(participants,
          [id |-> req[r].pid, user_id |-> u, status |-> ParticipantStatusActive])
    /\ IF outcome = "succeeded"
         THEN /\ intents < MaxIntents
              /\ intents' = intents + 1
              /\ payments' = payments \cup
                    {[intent |-> intents + 1, participant_id |-> req[r].pid,
                      user_id |-> u, status |-> PaymentStatusSucceeded,
                      amount |-> fixedPaymentAmount, currency |-> paymentCurrency]}
              /\ Finish(r, u, "JoinRideAutomatically", ErrNil)
         ELSE /\ Finish(r, u, "JoinRideAutomatically",
                        IF outcome = "error" THEN ErrPaymentFailed ELSE ErrPaymentConfirmation)
              /\ UNCHANGED <<payments, intents>>
    /\ rideLock' = 0
    /\ UNCHANGED <<ride, hasPaymentMethod>>

\* stripeClient.CreateAndConfirmPaymentIntent, off session; on success the
\* payment INSERT and the commit of both rows
AutoCharge(r, outcome) ==
    LET u == req[r].user IN
    /\ Step(r, "ja_charge")
    /\ IF outcome = "succeeded"
         THEN /\ intents < MaxIntents
              /\ intents' = intents + 1
              /\ participants' = InsertParticipant(participants,
                    [id |-> req[r].pid, user_id |-> u, status |-> ParticipantStatusActive])
              /\ payments' = payments \cup
                    {[intent |-> intents + 1, participant_id |-> req[r].pid,
                      user_id |-> u, status |-> PaymentStatusSucceeded,
                      amount |-> fixedPaymentAmount, currency |-> paymentCurrency]}
              /\ Finish(r, u, "JoinRideAutomatically", ErrNil)
         ELSE /\ Finish(r, u, "JoinRideAutomatically",
                        IF outcome = "error" THEN ErrPaymentFailed ELSE ErrPaymentConfirmation)
              /\ UNCHANGED <<participants, payments, intents>>
    /\ rideLock' = 0
    /\ UNCHANGED <<ride, hasPaymentMethod>>

\* ------------------------------------------------ CreatePaymentIntent
CreatePaymentIntentCheck(r, u) ==
    LET found == RowsOf(participants, u)
        row == CHOOSE p \in found : TRUE
    IN
    /\ Arrives(r, u)
    /\ IF found = {} THEN Finish(r, u, "CreatePaymentIntent", ErrNotJoined)
       ELSE IF row.status # ParticipantStatusPendingPayment
         THEN Finish(r, u, "CreatePaymentIntent", ErrCannotCreatePayment)
       ELSE req' = [req EXCEPT ![r] = [Idle EXCEPT !.op = "CreatePaymentIntent", !.pc = "cp_create",
                                                    !.user = u, !.pid = row.id]]
    /\ UNCHANGED <<db, intents, rideLock>>

\* the payments table refuses a row whose ride or participant is gone
\* (REFERENCES) or whose participant already has a payment (UNIQUE)
PaymentInsertViolates(pid) ==
    \/ ~ride.present
    \/ ~\E p \in participants : p.id = pid
    \/ \E q \in payments : q.participant_id = pid

\* stripeClient.CreatePaymentIntent, then the INSERT into payments
CreatePaymentIntentCreate(r, stripeOk) ==
    LET u == req[r].user
        pid == req[r].pid
    IN
    /\ Step(r, "cp_create")
    /\ IF ~stripeOk
         THEN /\ Finish(r, u, "CreatePaymentIntent", ErrStripeCreate)
              /\ UNCHANGED <<payments, intents>>
         ELSE /\ intents < MaxIntents
              /\ intents' = intents + 1
              /\ IF PaymentInsertViolates(pid)
                   THEN /\ Finish(r, u, "CreatePaymentIntent", ErrSaveTransaction)
                        /\ UNCHANGED payments
                   ELSE /\ payments' = payments \cup
                              {[intent |-> intents + 1, participant_id |-> pid,
                                user_id |-> u, status |-> PaymentStatusPending,
                                amount |-> fixedPaymentAmount, currency |-> paymentCurrency]}
                        /\ Finish(r, u, "CreatePaymentIntent", ErrNil)
    /\ UNCHANGED <<ride, participants, hasPaymentMethod, rideLock>>

\* ------------------------------------------------- HandleStripeWebhook
\* the event types the switch of HandleStripeWebhook dispatches
EventTypes == {"payment_intent.succeeded", "payment_intent.payment_failed", "setup_intent.succeeded"}

\* the service were it to dispatch the event before it verifies the signature
WebhookBadSignature_DispatchFirst(r, t, i) ==
    /\ Arrives(r, 0)
    /\ FinishEvent(r, "HandleStripeWebhook", i, 0, ErrSignature)
    /\ payments' = IF t = "payment_intent.succeeded" THEN SetPayment(payments, i, PaymentStatusSucceeded)
                   ELSE IF t = "payment_intent.payment_failed" THEN SetPayment(payments, i, PaymentStatusFailed)
                   ELSE payments
    /\ UNCHANGED <<ride, participants, hasPaymentMethod, intents, rideLock>>

\* webhook.ConstructEvent rejects the signature of a payload that carries
\* event type t and intent id i: the service returns before the switch
WebhookBadSignature(r, t, i) ==
    /\ Arrives(r, 0)
    /\ FinishEvent(r, "HandleStripeWebhook", i, 0, ErrSignature)
    /\ UNCHANGED <<db, intents, rideLock>>

\* an event type the switch does not handle
WebhookUnhandled(r) ==
    /\ Arrives(r, 0)
    /\ Finish(r, 0, "HandleStripeWebhook", ErrNil)
    /\ UNCHANGED <<db, intents, rideLock>>

\* handleSetupIntentSucceeded
handleSetupIntentSucceeded(r, u) ==
    /\ Arrives(r, 0)
    /\ hasPaymentMethod' = hasPaymentMethod \cup {u}
    /\ Finish(r, u, "handleSetupIntentSucceeded", ErrNil)
    /\ UNCHANGED <<ride, participants, payments, intents, rideLock>>

\* the handler were it to put the linked participant out of the ride as well
handlePaymentIntentFailed_ResetsParticipant(r, i) ==
    LET hit == {q \in payments : q.intent = i /\ q.status = PaymentStatusPending} IN
    /\ Arrives(r, 0)
    /\ payments' = IF hit # {} THEN SetPayment(payments, i, PaymentStatusFailed) ELSE payments
    /\ participants' = {IF \E q \in hit : q.participant_id = p.id
                          THEN [p EXCEPT !.status = ParticipantStatusLeft] ELSE p : p \in participants}
    /\ FinishEvent(r, "handlePaymentIntentFailed", i, Cardinality(hit), ErrNil)
    /\ UNCHANGED <<ride, hasPaymentMethod, intents, rideLock>>

\* the handler were its UPDATE to lack the condition status = 'pending'
handlePaymentIntentFailed_AnyStatus(r, i) ==
    LET hit == {q \in payments : q.intent = i} IN
    /\ Arrives(r, 0)
    /\ payments' = SetPayment(payments, i, PaymentStatusFailed)
    /\ FinishEvent(r, "handlePaymentIntentFailed", i, Cardinality(hit), ErrNil)
    /\ UNCHANGED <<ride, participants, hasPaymentMethod, intents, rideLock>>

\* handlePaymentIntentFailed: one UPDATE of the payment that is still pending
handlePaymentIntentFailed(r, i) ==
    LET hit == {q \in payments : q.intent = i /\ q.status = PaymentStatusPending} IN
    /\ Arrives(r, 0)
    /\ payments' = IF hit # {} THEN SetPayment(payments, i, PaymentStatusFailed) ELSE payments
    /\ FinishEvent(r, "handlePaymentIntentFailed", i, Cardinality(hit), ErrNil)
    /\ UNCHANGED <<ride, participants, hasPaymentMethod, intents, rideLock>>

\* the participant rows the succeeded event of intent i activates
ActivatedBy(i) ==
    {p \in participants : /\ p.status = ParticipantStatusPendingPayment
                          /\ \E q \in payments : q.intent = i /\ q.participant_id = p.id}

\* the handler were it to refuse an event that finds no pending payment
handlePaymentIntentSucceeded_PendingOnly(r, i) ==
    LET paid == {q \in payments : q.intent = i /\ q.status = PaymentStatusPending}
    IN
    /\ Arrives(r, 0)
    /\ IF paid = {}
         THEN /\ FinishEvent(r, "handlePaymentIntentSucceeded", i, 0, ErrNoParticipantForPI)
              /\ UNCHANGED <<participants, payments>>
         ELSE /\ participants' = {IF p \in ActivatedBy(i)
                                    THEN [p EXCEPT !.status = ParticipantStatusActive]
                                    ELSE p : p \in participants}
              /\ payments' = SetPayment(payments, i, PaymentStatusSucceeded)
              /\ FinishEvent(r, "handlePaymentIntentSucceeded", i,
                             Cardinality(paid) + Cardinality(ActivatedBy(i)), ErrNil)
    /\ UNCHANGED <<ride, hasPaymentMethod, intents, rideLock>>

\* the handler were its UPDATE of the participant to lack the condition
\* status = 'pending_payment'
handlePaymentIntentSucceeded_AnyStatus(r, i) ==
    LET paid == {q \in payments : q.intent = i /\ q.status = PaymentStatusPending}
        linked == {q \in payments : q.intent = i /\ q.participant_id # 0}
        hit == {p \in participants : \E q \in linked : q.participant_id = p.id}
    IN
    /\ Arrives(r, 0)
    /\ IF linked = {}
         THEN /\ FinishEvent(r, "handlePaymentIntentSucceeded", i, 0, ErrNoParticipantForPI)
              /\ UNCHANGED <<participants, payments>>
         ELSE /\ participants' = {IF p \in hit
                                    THEN [p EXCEPT !.status = ParticipantStatusActive]
                                    ELSE p : p \in participants}
              /\ payments' = IF paid # {}
                               THEN SetPayment(payments, i, PaymentStatusSucceeded)
                               ELSE payments
              /\ FinishEvent(r, "handlePaymentIntentSucceeded", i,
                             Cardinality(paid) + Cardinality(hit), ErrNil)
    /\ UNCHANGED <<ride, hasPaymentMethod, intents, rideLock>>

\* handlePaymentIntentSucceeded: the UPDATE of the payment, the participant
\* lookup, the UPDATE of the participant, and the commit
handlePaymentIntentSucceeded(r, i) ==
    LET paid == {q \in payments : q.intent = i /\ q.status = PaymentStatusPending}
        linked == {q \in payments : q.intent = i /\ q.participant_id # 0}
    IN
    /\ Arrives(r, 0)
    /\ IF linked = {}
         THEN /\ FinishEvent(r, "handlePaymentIntentSucceeded", i, 0, ErrNoParticipantForPI)
              /\ UNCHANGED <<participants, payments>>
         ELSE /\ participants' = {IF p \in ActivatedBy(i)
                                    THEN [p EXCEPT !.status = ParticipantStatusActive]
                                    ELSE p : p \in participants}
              /\ payments' = IF paid # {}
                               THEN SetPayment(payments, i, PaymentStatusSucceeded)
                               ELSE payments
              /\ FinishEvent(r, "handlePaymentIntentSucceeded", i,
                             Cardinality(paid) + Cardinality(ActivatedBy(i)), ErrNil)
    /\ UNCHANGED <<ride, hasPaymentMethod, intents, rideLock>>

\* ----------------------------------------------------- GetRideDetails
\* GetRideDetails: the error of the ride query
GetRideDetails == IF ride.present THEN ErrNil ELSE ErrRideNotFound

\* ------------------------------------------------------ GetRideContacts
\* the status the first query reads for user u
requesterStatus(u) ==
    IF RowsOf(participants, u) = {} THEN "not_participant"
    ELSE (CHOOSE p \in RowsOf(participants, u) : TRUE).status

\* the service were it to let every user with a participant row in
GetRideContactsCheck_AnyParticipant(r, u) ==
    /\ Arrives(r, u)
    /\ IF ~ride.present THEN Finish(r, u, "GetRideContacts", ErrRideNotFound)
       ELSE IF ride.user_id # u /\ requesterStatus(u) = "not_participant"
         THEN Finish(r, u, "GetRideContacts", ErrUnauthorizedContacts)
       ELSE req' = [req EXCEPT ![r] = [Idle EXCEPT !.op = "GetRideContacts", !.pc = "gc_list", !.user = u]]
    /\ UNCHANGED <<db, intents, rideLock>>

\* GetRideContacts: the query that decides whether the requester may read
GetRideContactsCheck(r, u) ==
    /\ Arrives(r, u)
    /\ IF ~ride.present THEN Finish(r, u, "GetRideContacts", ErrRideNotFound)
       ELSE IF ride.user_id # u /\ requesterStatus(u) # ParticipantStatusActive
         THEN Finish(r, u, "GetRideContacts", ErrUnauthorizedContacts)
       ELSE req' = [req EXCEPT ![r] = [Idle EXCEPT !.op = "GetRideContacts", !.pc = "gc_list", !.user = u]]
    /\ UNCHANGED <<db, intents, rideLock>>

\* the rows of the contacts query: the creator and the active participants
Contacts ==
    IF ride.present
      THEN {ride.user_id} \cup {p.user_id : p \in {q \in participants : q.status = ParticipantStatusActive}}
      ELSE {}

\* GetRideContacts: the query that reads the contacts, and the answer
GetRideContactsList(r) ==
    /\ Step(r, "gc_list")
    /\ req' = [req EXCEPT ![r] = [Idle EXCEPT !.op = "GetRideContacts", !.pc = "done",
                                               !.user = req[r].user, !.contacts = Contacts]]
    /\ UNCHANGED <<db, intents, rideLock>>

\* --------------------------------------------------------- DeleteRide
\* DeleteRide's boolean result, from the count of its first query
hadParticipants(cnt) == cnt > 0

\* the service were it to skip the comparison with the ride's user_id
DeleteRideCheck_NoOwnership(r, u) ==
    /\ Arrives(r, u)
    /\ IF ~ride.present THEN Finish(r, u, "DeleteRide", ErrRideNotFound)
       ELSE req' = [req EXCEPT ![r] = [Idle EXCEPT !.op = "DeleteRide", !.pc = "dr_tx", !.user = u,
                                                    !.cnt = ActiveCount(participants)]]
    /\ UNCHANGED <<db, intents, rideLock>>

\* the ownership check and the active participant count
DeleteRideCheck(r, u) ==
    /\ Arrives(r, u)
    /\ IF ~ride.present THEN Finish(r, u, "DeleteRide", ErrRideNotFound)
       ELSE IF ride.user_id # u THEN Finish(r, u, "DeleteRide", ErrUnauthorizedDelete)
       ELSE req' = [req EXCEPT ![r] = [Idle EXCEPT !.op = "DeleteRide", !.pc = "dr_tx", !.user = u,
                                                    !.cnt = ActiveCount(participants)]]
    /\ UNCHANGED <<db, intents, rideLock>>

\* DELETE FROM participants, DELETE FROM rides with its cascades, and the commit
DeleteRideTx(r) ==
    /\ Step(r, "dr_tx")
    /\ rideLock = 0
    /\ IF ride.present
         THEN /\ ride' = DeletedRide
              /\ participants' = {}
              /\ payments' = {}
              /\ req' = [req EXCEPT ![r] = [Idle EXCEPT !.op = "DeleteRide", !.pc = "done",
                                                         !.user = req[r].user, !.cnt = req[r].cnt]]
         ELSE /\ Finish(r, req[r].user, "DeleteRide", ErrNotDeleted)
              /\ UNCHANGED <<ride, participants, payments>>
    /\ UNCHANGED <<hasPaymentMethod, intents, rideLock>>

\* the handler has answered: the slot is free again
Respond(r) ==
    /\ req[r].pc = "done"
    /\ req' = [req EXCEPT ![r] = Idle]
    /\ UNCHANGED <<db, intents, rideLock>>

\* --------------------------------------------------------------- Next
Next ==
    \/ \E u \in Creators, n \in 1..MaxSeats : CreateRide(u, n)
    \/ ArchiveRide
    \/ \E r \in DOMAIN req, u \in Users : JoinRideLock(r, u)
    \/ \E r \in DOMAIN req : JoinRideTx(r)
    \/ \E r \in DOMAIN req, u \in Users : LeaveRide(r, u)
    \/ \E r \in DOMAIN req, u \in Users : ValidateLock(r, u)
    \/ \E r \in DOMAIN req : AutoParticipant(r)
    \/ \E r \in DOMAIN req, o \in {"succeeded", "error", "processing"} : AutoCharge(r, o)
    \/ \E r \in DOMAIN req, u \in Users : CreatePaymentIntentCheck(r, u)
    \/ \E r \in DOMAIN req, ok \in BOOLEAN : CreatePaymentIntentCreate(r, ok)
    \/ \E r \in DOMAIN req, t \in EventTypes, i \in 1..MaxIntents : WebhookBadSignature(r, t, i)
    \/ \E r \in DOMAIN req : WebhookUnhandled(r)
    \/ \E r \in DOMAIN req, u \in CardUsers : handleSetupIntentSucceeded(r, u)
    \/ \E r \in DOMAIN req, i \in 1..intents : handlePaymentIntentFailed(r, i)
    \/ \E r \in DOMAIN req, i \in 1..intents : handlePaymentIntentSucceeded(r, i)
    \/ \E r \in DOMAIN req, u \in Users : DeleteRideCheck(r, u)
    \/ \E r \in DOMAIN req : DeleteRideTx(r)
    \/ \E r \in DOMAIN req, u \in Users : GetRideContactsCheck(r, u)
    \/ \E r \in DOMAIN req : GetRideContactsList(r)
    \/ \E r \in DOMAIN req : Respond(r)

Spec == Init /\ [][Next]_vars

\* -------------------------------- N + k concurrent automatic joins
\* the users that attempt: one per request, none the creator
AutoUsers == 2..(AutoReq + 1)

\* a fresh active ride of N seats, N < AutoReq, and AutoReq users with a stored
\* payment method whose requests have not started
InitAuto ==
    /\ \E n \in {m \in 1..MaxIntents : m < AutoReq} :
          ride = [present |-> TRUE, user_id |-> 1, total_seats |-> n, status |-> RideStatusActive]
    /\ participants = {}
    /\ payments = {}
    /\ hasPaymentMethod = AutoUsers
    /\ intents = 0
    /\ rideLock = 0
    /\ req = [r \in 1..AutoReq |-> [Idle EXCEPT !.user = r + 1]]

\* the attempt's answer is kept
RespondKeep(r) ==
    /\ req[r].pc = "done"
    /\ req' = [req EXCEPT ![r].pc = "answered"]
    /\ UNCHANGED <<db, intents, rideLock>>

NextAuto ==
    \/ \E r \in DOMAIN req, u \in AutoUsers : ValidateLock(r, u)
    \/ \E r \in DOMAIN req : AutoParticipant(r)
    \/ \E r \in DOMAIN req : AutoCharge(r, "succeeded")
    \/ \E r \in DOMAIN req : RespondKeep(r)

SpecAuto == InitAuto /\ [][NextAuto]_vars

\* ------------- automatic joins whose database statements may fail
\* the charge has succeeded at Stripe, then the payment INSERT or the commit
\* returns an error: the deferred Rollback drops the staged participant row
AutoChargeDatabaseFault(r, fault) ==
    LET u == req[r].user IN
    /\ Step(r, "ja_charge")
    /\ intents < MaxIntents
    /\ intents' = intents + 1
    /\ Finish(r, u, "JoinRideAutomatically",
              IF fault = "insert" THEN ErrInsertPayment ELSE ErrFinalize)
    /\ rideLock' = 0
    /\ UNCHANGED db

NextAutoFault ==
    \/ \E r \in DOMAIN req, u \in AutoUsers : ValidateLock(r, u)
    \/ \E r \in DOMAIN req : AutoParticipant(r)
    \/ \E r \in DOMAIN req, o \in {"succeeded", "error", "processing"} : AutoCharge(r, o)
    \/ \E r \in DOMAIN req, f \in {"insert", "commit"} : AutoChargeDatabaseFault(r, f)
    \/ \E r \in DOMAIN req : RespondKeep(r)

SpecAutoFault == InitAuto /\ [][NextAutoFault]_vars

\* ------------- concurrent deliveries of payment_intent.succeeded
\* handlePaymentIntentSucceeded statement by statement. A row an open
\* transaction has updated is locked until that transaction ends: another
\* UPDATE of the row waits, and when it proceeds it evaluates its WHERE
\* condition on the committed row. No statement of these deliveries reads a
\* column an open transaction has written, so a write is shown at once.
WebhookReq == 3

InFlight(s) == req[s].pc \in {"wh_find", "wh_part", "wh_commit"}

\* another open transaction has updated the payment of intent i
PaymentLocked(r, i) ==
    \E s \in DOMAIN req : s # r /\ InFlight(s) /\ req[s].intent = i /\ req[s].cnt = 1

\* another open transaction has updated participant pid
ParticipantLocked(r, pid) ==
    \E s \in DOMAIN req : s # r /\ InFlight(s) /\ req[s].pid = pid /\ req[s].rows > req[s].cnt

\* two participants who asked for a payment intent, the second of whom may
\* have left since, and deliveries that have not started
InitWebhook ==
    /\ ride = [present |-> TRUE, user_id |-> 1, total_seats |-> MaxSeats, status |-> RideStatusActive]
    /\ \E s \in {ParticipantStatusPendingPayment, ParticipantStatusLeft} :
          participants = {[id |-> 1, user_id |-> 2, status |-> ParticipantStatusPendingPayment],
                          [id |-> 2, user_id |-> 3, status |-> s]}
    /\ payments = {[intent |-> i, participant_id |-> i, user_id |-> i + 1,
                    status |-> PaymentStatusPending,
                    amount |-> fixedPaymentAmount, currency |-> paymentCurrency] : i \in 1..2}
    /\ hasPaymentMethod = {}
    /\ intents = 2
    /\ rideLock = 0
    /\ req \in [1..WebhookReq -> {[Idle EXCEPT !.intent = i] : i \in 1..2}]

\* the UPDATE of the payment were it to lack the condition status = 'pending'
WebhookUpdatePayment_NoGuard(r) ==
    LET i == req[r].intent IN
    /\ req[r].pc = "idle"
    /\ ~PaymentLocked(r, i)
    /\ payments' = SetPayment(payments, i, PaymentStatusSucceeded)
    /\ req' = [req EXCEPT ![r].op = "handlePaymentIntentSucceeded", ![r].pc = "wh_find",
                          ![r].cnt = Cardinality({q \in payments : q.intent = i}),
                          ![r].rows = Cardinality({q \in payments : q.intent = i})]
    /\ UNCHANGED <<ride, participants, hasPaymentMethod, intents, rideLock>>

\* 1. UPDATE payments SET status = 'succeeded' WHERE ... AND status = 'pending'
WebhookUpdatePayment(r) ==
    LET i == req[r].intent
        paid == {q \in payments : q.intent = i /\ q.status = PaymentStatusPending}
    IN
    /\ req[r].pc = "idle"
    /\ ~PaymentLocked(r, i)
    /\ payments' = IF paid # {} THEN SetPayment(payments, i, PaymentStatusSucceeded) ELSE payments
    /\ req' = [req EXCEPT ![r].op = "handlePaymentIntentSucceeded", ![r].pc = "wh_find",
                          ![r].cnt = Cardinality(paid), ![r].rows = Cardinality(paid)]
    /\ UNCHANGED <<ride, participants, hasPaymentMethod, intents, rideLock>>

\* 2. SELECT participant_id FROM payments; an error rolls the UPDATE back
WebhookFindParticipant(r) ==
    LET i == req[r].intent
        linked == {q \in payments : q.intent = i /\ q.participant_id # 0}
    IN
    /\ req[r].pc = "wh_find"
    /\ IF linked = {}
         THEN /\ payments' = IF req[r].cnt = 1 THEN SetPayment(payments, i, PaymentStatusPending)
                             ELSE payments
              /\ req' = [req EXCEPT ![r].pc = "done", ![r].cnt = 0, ![r].rows = 0,
                                    ![r].err = ErrNoParticipantForPI]
         ELSE /\ req' = [req EXCEPT ![r].pc = "wh_part",
                                    ![r].pid = (CHOOSE q \in linked : TRUE).participant_id]
              /\ UNCHANGED payments
    /\ UNCHANGED <<ride, participants, hasPaymentMethod, intents, rideLock>>

\* the UPDATE of participants ... AND status = 'pending_payment'
WebhookUpdateParticipant(r) ==
    LET hit == {p \in participants : p.id = req[r].pid /\ p.status = ParticipantStatusPendingPayment}
    IN
    /\ req[r].pc = "wh_part"
    /\ ~ParticipantLocked(r, req[r].pid)
    /\ participants' = IF hit # {} THEN SetStatus(participants, req[r].pid, ParticipantStatusActive)
                       ELSE participants
    /\ req' = [req EXCEPT ![r].pc = "wh_commit", ![r].rows = req[r].cnt + Cardinality(hit)]
    /\ UNCHANGED <<ride, payments, hasPaymentMethod, intents, rideLock>>

\* tx.Commit and return nil
WebhookCommit(r) ==
    /\ req[r].pc = "wh_commit"
    /\ req' = [req EXCEPT ![r].pc = "done", ![r].err = ErrNil]
    /\ UNCHANGED <<db, intents, rideLock>>

NextWebhook ==
    \/ \E r \in DOMAIN req : WebhookUpdatePayment(r)
    \/ \E r \in DOMAIN req : WebhookFindParticipant(r)
    \/ \E r \in DOMAIN req : WebhookUpdateParticipant(r)
    \/ \E r \in DOMAIN req : WebhookCommit(r)
    \/ \E r \in DOMAIN req : RespondKeep(r)

SpecWebhook == InitWebhook /\ [][NextWebhook]_vars

\* ------------- JoinRide against DeleteRide, statement by statement
\* DeleteRide deletes the participants of the ride first and the ride row
\* second; JoinRide locks the ride row first and updates the participant
\* second. A deleted row stays locked, and the deletion invisible to others,
\* until the deleting transaction ends: the ids are kept in its request.
LockReq == 3

InitLock ==
    /\ ride = [present |-> TRUE, user_id |-> 1, total_seats |-> MaxSeats, status |-> RideStatusActive]
    /\ \E s \in {ParticipantStatusLeft, ParticipantStatusActive} :
          participants = {[id |-> 1, user_id |-> 2, status |-> ParticipantStatusLeft],
                          [id |-> 2, user_id |-> 3, status |-> s]}
    /\ payments = {[intent |-> i, participant_id |-> i, user_id |-> i + 1,
                    status |-> PaymentStatusSucceeded,
                    amount |-> fixedPaymentAmount, currency |-> paymentCurrency] : i \in 1..2}
    /\ hasPaymentMethod = {}
    /\ intents = 2
    /\ rideLock = 0
    /\ req = [r \in 1..LockReq |-> Idle]

\* DELETE FROM participants WHERE ride_id = $1
DeleteParticipants(r) ==
    /\ Step(r, "dr_tx")
    /\ \A s \in DOMAIN req : s # r => req[s].contacts = {}
    /\ req' = [req EXCEPT ![r].pc = "dr_ride", ![r].contacts = {p.id : p \in participants}]
    /\ UNCHANGED <<db, intents, rideLock>>

\* DELETE FROM rides waits for the ride row; then the rows go and the
\* transaction commits
DeleteRideRow(r) ==
    /\ Step(r, "dr_ride")
    /\ rideLock = 0
    /\ IF ride.present
         THEN /\ ride' = DeletedRide
              /\ participants' = {}
              /\ payments' = {}
              /\ req' = [req EXCEPT ![r] = [Idle EXCEPT !.op = "DeleteRide", !.pc = "done",
                                                         !.user = req[r].user, !.cnt = req[r].cnt]]
         ELSE /\ Finish(r, req[r].user, "DeleteRide", ErrNotDeleted)
              /\ UNCHANGED <<ride, participants, payments>>
    /\ UNCHANGED <<hasPaymentMethod, intents, rideLock>>

\* the UPDATE of the rejoining user's row waits for the transaction d that
\* has deleted this row
JoinWaitsFor(j, d) ==
    /\ req[j].pc = "jr_tx"
    /\ req[d].pc = "dr_ride"
    /\ JoinRideChecks(req[j].user) = ErrNil
    /\ \E p \in RowsOf(participants, req[j].user) :
          p.status = ParticipantStatusLeft /\ p.id \in req[d].contacts

\* j holds the ride row and waits for d, d waits for the ride row
LockCycle(j, d) == JoinWaitsFor(j, d) /\ rideLock = j

\* JoinRide's transaction runs when its UPDATE does not wait
JoinRideTxUnblocked(r) ==
    /\ \A d \in DOMAIN req : ~JoinWaitsFor(r, d)
    /\ JoinRideTx(r)

\* PostgreSQL ends a lock cycle: one of the two statements fails with
\* "deadlock detected" and its transaction is rolled back
DeadlockAbort(j, d) ==
    /\ NoneDone
    /\ LockCycle(j, d)
    /\ \/ Finish(j, req[j].user, "JoinRide", ErrRejoinUpdate) /\ rideLock' = 0
       \/ Finish(d, req[d].user, "DeleteRide", ErrDeleteRide) /\ UNCHANGED rideLock
    /\ UNCHANGED <<db, intents>>

NextLock ==
    \/ \E r \in DOMAIN req, u \in Users : JoinRideLock(r, u)
    \/ \E r \in DOMAIN req : JoinRideTxUnblocked(r)
    \/ \E r \in DOMAIN req, u \in Users : DeleteRideCheck(r, u)
    \/ \E r \in DOMAIN req : DeleteParticipants(r)
    \/ \E r \in DOMAIN req : DeleteRideRow(r)
    \/ \E j \in DOMAIN req, d \in DOMAIN req : DeadlockAbort(j, d)
    \/ \E r \in DOMAIN req : RespondKeep(r)

SpecLock == InitLock /\ [][NextLock]_vars

\* every statement that can run does run
SpecLockFair == SpecLock /\ WF_vars(NextLock)

\* ------------------------------------------------------------- properties
\* C1: in every reachable state the number of participant rows of the ride in
\* status active is at most the ride's total_seats
NoOverbooking == ride.present => ActiveCount(participants) <= ride.total_seats

\* C3: in every committed state every participant row in status active has a
\* payment row linked to it (its participant id) in status succeeded
ActiveHasSucceededPayment ==
    \A p \in participants :
       p.status = ParticipantStatusActive =>
          \E q \in payments : q.participant_id = p.id /\ q.status = PaymentStatusSucceeded

\* request r answers operation o in this step
Answers(r, o) == req[r].pc # "done" /\ req'[r].pc = "done" /\ req'[r].op = o

\* C4: a charge-succeeded delivery for a pending payment whose participant is
\* pending_payment moves exactly that payment to succeeded and exactly that
\* participant to active; a delivery of the same event that finds them
\* succeeded and active changes no row and is acknowledged as success
IdempotentWebhookReplay ==
    [][\A r \in DOMAIN req, q \in payments, p \in participants :
         (/\ Answers(r, "handlePaymentIntentSucceeded")
          /\ req'[r].intent = q.intent
          /\ p.id = q.participant_id) =>
            /\ (q.status = PaymentStatusPending /\ p.status = ParticipantStatusPendingPayment) =>
                 /\ payments' = (payments \ {q}) \cup {[q EXCEPT !.status = PaymentStatusSucceeded]}
                 /\ participants' = (participants \ {p}) \cup {[p EXCEPT !.status = ParticipantStatusActive]}
                 /\ req'[r].rows = 2
                 /\ PaymentHandler_HandleStripeWebhook(req'[r].err) = StatusOK
            /\ (q.status = PaymentStatusSucceeded /\ p.status = ParticipantStatusActive) =>
                 /\ payments' = payments
                 /\ participants' = participants
                 /\ req'[r].rows = 0
                 /\ req'[r].err = ErrNil
                 /\ PaymentHandler_HandleStripeWebhook(req'[r].err) = StatusOK
      ]_vars

\* a charge-succeeded event of a manual payment was delivered again: it is
\* answered with success, it affected no row, and the payment is succeeded
\* and its participant active
WebhookRedelivered ==
    \E r \in DOMAIN req, q \in payments, p \in participants :
       /\ req[r].pc = "done" /\ req[r].op = "handlePaymentIntentSucceeded"
       /\ req[r].intent = q.intent /\ req[r].rows = 0 /\ req[r].err = ErrNil
       /\ q.user_id \notin hasPaymentMethod
       /\ q.status = PaymentStatusSucceeded
       /\ p.id = q.participant_id /\ p.status = ParticipantStatusActive

\* C5: when the off-session charge of JoinRideAutomatically fails (an error of
\* the processor, or a status other than succeeded), the call has changed no
\* participant and no payment row at any of its steps, and once it is answered
\* the user has no participant row and no payment row
AutoChargeFailureAtomic ==
    [][\A r \in DOMAIN req :
         /\ (/\ req'[r] # req[r]
             /\ req'[r].op = "JoinRideAutomatically"
             /\ ~(req'[r].pc = "done" /\ req'[r].err = ErrNil)) =>
               participants' = participants /\ payments' = payments
         /\ (/\ req[r].pc = "ja_charge"
             /\ req'[r].pc = "done"
             /\ req'[r].err \in {ErrPaymentFailed, ErrPaymentConfirmation}) =>
               /\ \A p \in participants' : p.user_id # req[r].user
               /\ \A q \in payments' : q.user_id # req[r].user
      ]_vars

\* an automatic join is answered with the failure of its charge
AutoChargeFailed ==
    \E r \in DOMAIN req :
       /\ req[r].pc = "done" /\ req[r].op = "JoinRideAutomatically"
       /\ req[r].err \in {ErrPaymentFailed, ErrPaymentConfirmation}
       /\ RowsOf(participants, req[r].user) = {}

\* C6: a join of the ride's creator on their own active ride, manual or
\* automatic, is answered with the SelfJoin rejection whatever the number of
\* active participants
SelfJoinAlwaysRejected ==
    \A r \in DOMAIN req :
       (/\ req[r].pc = "done"
        /\ req[r].op \in {"JoinRide", "JoinRideAutomatically"}
        /\ ride.present /\ ride.status = RideStatusActive
        /\ req[r].user = ride.user_id) => req[r].err = ErrSelfJoin

\* the status the join endpoint of operation o answers for error e
JoinStatus(o, e) ==
    IF o = "JoinRide" THEN RideHandler_JoinRide(e) ELSE PaymentHandler_JoinRideAutomatically(e)

\* C7: a join request, manual or automatic, of a user whose row for the ride is
\* active or pending_payment is rejected with the already-participating
\* error, answered in the conflict class, and changes no participant row
DuplicateJoinRejected ==
    [][\A r \in DOMAIN req :
         (/\ req[r].pc \in {"jr_tx", "ja_tx"}
          /\ req'[r].pc = "done"
          /\ \E p \in participants :
                /\ p.user_id = req[r].user
                /\ p.status \in {ParticipantStatusActive, ParticipantStatusPendingPayment}) =>
            /\ req'[r].err \in {ErrAlreadyJoinedPending, ErrAlreadyJoined, ErrAlreadyParticipating}
            /\ JoinStatus(req'[r].op, req'[r].err) = StatusConflict
            /\ participants' = participants
      ]_vars

\* C8: in every reachable state there is at most one participant row per user
\* for the ride
OneRowPerUser ==
    \A p \in participants, q \in participants : p.user_id = q.user_id => p = q

\* a user who had joined and asked for a payment intent, and then left, has
\* joined again: the join is answered with success and the user's one row is
\* the row the payment is linked to
RejoinedSameRow ==
    \E r \in DOMAIN req, p \in participants, q \in payments :
       /\ req[r].pc = "done" /\ req[r].op = "JoinRide" /\ req[r].err = ErrNil
       /\ p.user_id = req[r].user /\ p.status = ParticipantStatusPendingPayment
       /\ q.participant_id = p.id

\* the join of request r is answered in this step and finds row p of its user
\* in status left
RejoinStep(r, p) ==
    /\ req[r].pc \in {"jr_tx", "ja_tx"}
    /\ req'[r].pc = "done"
    /\ p.user_id = req[r].user
    /\ p.status = ParticipantStatusLeft

\* the rejoin is accepted: the same row moves to the flow's status
RejoinAccepted(r, p) ==
    /\ req'[r].err = ErrNil
    /\ participants' = (participants \ {p}) \cup
          {[p EXCEPT !.status = IF req[r].op = "JoinRide" THEN ParticipantStatusPendingPayment
                                                         ELSE ParticipantStatusActive]}

LeaveOnlyFromPendingOrActive ==
    [][\A r \in DOMAIN req :
         Answers(r, "LeaveRide") =>
            LET mine == {p \in participants : p.user_id = req'[r].user}
                hit == {p \in mine : p.status \in {ParticipantStatusPendingPayment,
                                                    ParticipantStatusActive}}
            IN
            IF hit # {}
              THEN /\ req'[r].err = ErrNil
                   /\ participants' = (participants \ hit) \cup
                         {[p EXCEPT !.status = ParticipantStatusLeft] : p \in hit}
              ELSE /\ req'[r].err # ErrNil
                   /\ participants' = participants
                   /\ (\E p \in mine : p.status = ParticipantStatusLeft) =>
                         RideHandler_LeaveRide(req'[r].err) = StatusConflict
      ]_vars

\* request r answers DeleteRide with success in this step
Deletes(r) == Answers(r, "DeleteRide") /\ req'[r].err = ErrNil

\* C11: when the creator deletes a ride that has at least one participant row,
\* the ride row stays, with status cancelled, every participant that was active
\* or pending_payment becomes cancelled_ride, the other participants are
\* unchanged, and no payment row is changed or removed
CancellationBranch ==
    [][\A r \in DOMAIN req :
         (Deletes(r) /\ participants # {}) =>
            /\ ride' = [ride EXCEPT !.status = RideStatusCancelled]
            /\ participants' =
                 {IF p.status \in {ParticipantStatusActive, ParticipantStatusPendingPayment}
                    THEN [p EXCEPT !.status = ParticipantStatusCancelledRide]
                    ELSE p : p \in participants}
            /\ payments' = payments
      ]_vars

\* C12: when the creator deletes a ride that has no participant row, the ride
\* row is removed and GetRideDetails then answers not-found; the ride row is
\* removed only when the ride has no participant row
HardDeleteBranch ==
    [][\A r \in DOMAIN req :
         Deletes(r) =>
            /\ participants = {} => (~ride'.present /\ GetRideDetails' = ErrRideNotFound)
            /\ ~ride'.present => participants = {}
      ]_vars

\* C13: DeleteRide's boolean result is true exactly when the ride row is still
\* there with status cancelled after the call, and false exactly when the
\* ride row was removed
DeleteResultReportsBranch ==
    [][\A r \in DOMAIN req :
         Deletes(r) =>
            /\ hadParticipants(req'[r].cnt) <=>
                 (ride'.present /\ ride'.status = RideStatusCancelled)
            /\ ~hadParticipants(req'[r].cnt) <=> ~ride'.present
      ]_vars

\* C14: a payment row that exists, exists in every later state
PaymentsNeverDeleted ==
    [][\A q \in payments : \E n \in payments' : n.intent = q.intent]_vars

\* C15: on a one-seat ride whose only participant B joined through the
\* automatic flow (B active, B's payment succeeded), a join of another user is
\* answered Full, and when the creator deletes the ride the ride row stays with
\* status cancelled, B becomes cancelled_ride and B's payment stays succeeded
EndToEndScenario ==
    [][\A r \in DOMAIN req, b \in participants, q \in payments :
         (/\ ride.present /\ ride.total_seats = 1
          /\ participants = {b} /\ b.status = ParticipantStatusActive
          /\ payments = {q} /\ q.participant_id = b.id /\ q.status = PaymentStatusSucceeded) =>
            /\ (/\ (Answers(r, "JoinRide") \/ Answers(r, "JoinRideAutomatically"))
                /\ ride.status = RideStatusActive
                /\ req'[r].user \notin {b.user_id, ride.user_id}) => req'[r].err = ErrFull
            /\ Deletes(r) =>
                 /\ ride'.present /\ ride'.status = RideStatusCancelled
                 /\ participants' = {[b EXCEPT !.status = ParticipantStatusCancelledRide]}
                 /\ payments' = {q}
      ]_vars

\* the operations that answer a webhook delivery
WebhookOps == {"HandleStripeWebhook", "handleSetupIntentSucceeded",
               "handlePaymentIntentFailed", "handlePaymentIntentSucceeded"}

\* C16: a delivery whose signature does not verify is answered with an error
\* of the 4xx class, never with 200, and changes no ride, participant,
\* payment or user row, whatever event type and intent id it carries
ForgedWebhookRejected ==
    [][\A r \in DOMAIN req :
         (Answers(r, "HandleStripeWebhook") /\ req'[r].err = ErrSignature) =>
            /\ PaymentHandler_HandleStripeWebhook(req'[r].err) # StatusOK
            /\ PaymentHandler_HandleStripeWebhook(req'[r].err) \in 400..499
            /\ db' = db ]_vars

\* a forged delivery that names an existing pending payment has been rejected
ForgedEventForPendingPayment ==
    \E r \in DOMAIN req :
        /\ req[r].pc = "done" /\ req[r].op = "HandleStripeWebhook" /\ req[r].err = ErrSignature
        /\ \E q \in payments : q.intent = req[r].intent /\ q.status = PaymentStatusPending

\* C17: the webhook endpoint answers 200 when the event was processed or was
\* a no-op, a 4xx status when the signature is invalid, and a 5xx status
\* when processing failed
WebhookAnswerClasses ==
    \A r \in DOMAIN req :
        (req[r].pc = "done" /\ req[r].op \in WebhookOps) =>
            LET st == PaymentHandler_HandleStripeWebhook(req[r].err) IN
            /\ req[r].err = ErrNil => st = StatusOK
            /\ req[r].err = ErrSignature => st \in 400..499
            /\ req[r].err \notin {ErrNil, ErrSignature} => st \in 500..599

\* C18: CreatePaymentIntent adds a payment row only while the caller's
\* participant row is pending_payment: a successful call adds exactly one row
\* (pending, the fixed amount and currency, the new intent id, the link to
\* that participant) and leaves the participants alone; a call that finds no
\* row or a row in another status fails, adds no payment and creates no intent
PaymentIntentPrecondition ==
    [][\A r \in DOMAIN req :
         Answers(r, "CreatePaymentIntent") =>
            LET u == req'[r].user
                rows == RowsOf(participants, u)
                pending == {p \in rows : p.status = ParticipantStatusPendingPayment}
            IN
            IF req'[r].err = ErrNil
              THEN /\ \E p \in pending :
                        payments' = payments \cup
                            {[intent |-> intents', participant_id |-> p.id, user_id |-> u,
                              status |-> PaymentStatusPending,
                              amount |-> fixedPaymentAmount, currency |-> paymentCurrency]}
                   /\ Cardinality(payments') = Cardinality(payments) + 1
                   /\ intents' = intents + 1
                   /\ participants' = participants
              ELSE /\ payments' = payments
                   /\ pending = {} => intents' = intents ]_vars

\* C19: a charge-failed event moves the pending payment of its intent to
\* failed and changes nothing else (the participant keeps its status); for a
\* payment that is no longer pending it changes no row; both are acknowledged
ChargeFailedOnlyFailsPayment ==
    [][\A r \in DOMAIN req :
         Answers(r, "handlePaymentIntentFailed") =>
            LET i == req'[r].intent IN
            /\ payments' = {IF q.intent = i /\ q.status = PaymentStatusPending
                               THEN [q EXCEPT !.status = PaymentStatusFailed] ELSE q : q \in payments}
            /\ participants' = participants
            /\ ride' = ride
            /\ hasPaymentMethod' = hasPaymentMethod
            /\ PaymentHandler_HandleStripeWebhook(req'[r].err) = StatusOK ]_vars

\* a charge-failed event was delivered again for a payment it had already
\* moved to failed, and the participant is still pending_payment
ChargeFailedRedelivered ==
    \E r \in DOMAIN req, q \in payments, p \in participants :
        /\ req[r].pc = "done" /\ req[r].op = "handlePaymentIntentFailed"
        /\ req[r].intent = q.intent /\ req[r].rows = 0
        /\ q.status = PaymentStatusFailed
        /\ p.id = q.participant_id /\ p.status = ParticipantStatusPendingPayment

\* C20: the status of a payment changes only from pending to succeeded or
\* from pending to failed, hence at most once for an intent id
PaymentStatusTerminal ==
    [][\A q \in payments, n \in payments' :
         (n.intent = q.intent /\ n.status # q.status) =>
            /\ q.status = PaymentStatusPending
            /\ n.status \in {PaymentStatusSucceeded, PaymentStatusFailed} ]_vars

\* an event of the opposite kind was delivered for a payment that had
\* already reached succeeded or failed, and the payment kept its status
OppositeEventIgnored ==
    \E r \in DOMAIN req, q \in payments :
        /\ req[r].pc = "done" /\ req[r].intent = q.intent
        /\ \/ req[r].op = "handlePaymentIntentSucceeded" /\ q.status = PaymentStatusFailed
           \/ req[r].op = "handlePaymentIntentFailed" /\ q.status = PaymentStatusSucceeded

\* C21: a DeleteRide request that finds no ride is answered NotFound, one of
\* a user who is not the ride's creator is answered Forbidden, both without
\* changing a ride, participant or payment row; only the creator's request
\* ever deletes
DeleteRefused ==
    [][\A r \in DOMAIN req :
         /\ (req[r].pc = "idle" /\ req'[r].op = "DeleteRide") =>
               LET u == req'[r].user
                   e == req'[r].err
               IN
               /\ ~ride.present =>
                     /\ req'[r].pc = "done" /\ e = ErrRideNotFound
                     /\ RideHandler_DeleteRide(e) = StatusNotFound
                     /\ db' = db
               /\ (ride.present /\ ride.user_id # u) =>
                     /\ req'[r].pc = "done" /\ e = ErrUnauthorizedDelete
                     /\ RideHandler_DeleteRide(e) = StatusForbidden
                     /\ db' = db
         /\ Deletes(r) => req'[r].user = ride.user_id ]_vars

\* a user who is not the creator was refused the deletion of a ride that has
\* a participant and a payment
DeleteForbidden ==
    \E r \in DOMAIN req :
        /\ req[r].pc = "done" /\ req[r].op = "DeleteRide" /\ req[r].err = ErrUnauthorizedDelete
        /\ ride.present /\ req[r].user # ride.user_id
        /\ participants # {} /\ payments # {}

JoinRejections ==
    {ErrRideNotFound, ErrNotActiveJoin, ErrNotOpen, ErrFull, ErrSelfJoin,
     ErrAlreadyJoinedPending, ErrAlreadyJoined, ErrAlreadyParticipating}

\* C23: at both join endpoints every rejection (not found, not active, full,
\* self join, already joined) is answered in the not-found or the conflict
\* class, never as an internal failure
JoinRejectionsDistinguishable ==
    \A r \in DOMAIN req :
        (/\ req[r].pc = "done"
         /\ req[r].op \in {"JoinRide", "JoinRideAutomatically"}
         /\ req[r].err \in JoinRejections) =>
            JoinStatus(req[r].op, req[r].err) \in {StatusNotFound, StatusConflict}

\* C24: the create-payment-intent endpoint answers in the conflict class, not
\* as an internal failure, when the caller has no participant row on the ride
\* or the row is not pending_payment
PaymentIntentRefusedAsConflict ==
    \A r \in DOMAIN req :
        (/\ req[r].pc = "done" /\ req[r].op = "CreatePaymentIntent"
         /\ req[r].err \in {ErrNotJoined, ErrCannotCreatePayment}) =>
            PaymentHandler_CreatePaymentIntent(req[r].err) = StatusConflict

\* C25: a charge that fails in the automatic flow (Stripe error, or a status
\* other than succeeded) is answered as the payment-failed outcome in the
\* conflict class, never as the internal failure used for database errors
PaymentFailureSurfaced ==
    \A r \in DOMAIN req :
        (/\ req[r].pc = "done" /\ req[r].op = "JoinRideAutomatically"
         /\ req[r].err \in {ErrPaymentFailed, ErrPaymentConfirmation}) =>
            /\ PaymentHandler_JoinRideAutomatically(req[r].err) = StatusConflict
            /\ PaymentHandler_JoinRideAutomatically(req[r].err) # StatusInternalServerError

\* the status changes the participant state machine allows
AllowedTransitions ==
    {<<ParticipantStatusPendingPayment, ParticipantStatusActive>>,
     <<ParticipantStatusPendingPayment, ParticipantStatusLeft>>,
     <<ParticipantStatusActive, ParticipantStatusLeft>>,
     <<ParticipantStatusLeft, ParticipantStatusPendingPayment>>,
     <<ParticipantStatusLeft, ParticipantStatusActive>>,
     <<ParticipantStatusPendingPayment, ParticipantStatusCancelledRide>>,
     <<ParticipantStatusActive, ParticipantStatusCancelledRide>>}

\* C26: a participant row is created in pending_payment or in active, its
\* status changes only along the allowed transitions (cancelled_ride is
\* terminal), and no participant row is ever removed
ParticipantStateMachine ==
    [][/\ \A p \in participants :
             \E n \in participants' :
                /\ n.id = p.id /\ n.user_id = p.user_id
                /\ n.status = p.status \/ <<p.status, n.status>> \in AllowedTransitions
       /\ \A n \in participants' :
             (\A p \in participants : p.id # n.id) =>
                n.status \in {ParticipantStatusPendingPayment, ParticipantStatusActive} ]_vars

\* C28: a charge-succeeded event changes a participant row only from
\* pending_payment to active, and only the row its payment is linked to; when
\* the linked participant is in another status (it has left), the pending
\* payment still becomes succeeded, no participant row changes, and the
\* delivery is acknowledged
ChargeSucceededOnlyActivatesPending ==
    [][\A r \in DOMAIN req :
         Answers(r, "handlePaymentIntentSucceeded") =>
            LET i == req'[r].intent IN
            /\ \A p \in participants :
                  p \notin participants' =>
                     /\ p.status = ParticipantStatusPendingPayment
                     /\ \E q \in payments : q.intent = i /\ q.participant_id = p.id
                     /\ [p EXCEPT !.status = ParticipantStatusActive] \in participants'
            /\ Cardinality(participants') = Cardinality(participants)
            /\ \A q \in payments, p \in participants :
                  (/\ q.intent = i /\ q.participant_id = p.id
                   /\ p.status # ParticipantStatusPendingPayment) =>
                     /\ participants' = participants
                     /\ payments' = {IF x.intent = i /\ x.status = PaymentStatusPending
                                       THEN [x EXCEPT !.status = PaymentStatusSucceeded]
                                       ELSE x : x \in payments}
                     /\ req'[r].err = ErrNil
                     /\ PaymentHandler_HandleStripeWebhook(req'[r].err) = StatusOK ]_vars

\* the charge of a participant who had left has succeeded: the payment is
\* succeeded, the event changed that one row, and the participant is still left
PaidAfterLeaving ==
    \E r \in DOMAIN req, q \in payments, p \in participants :
        /\ req[r].pc = "done" /\ req[r].op = "handlePaymentIntentSucceeded"
        /\ req[r].err = ErrNil /\ req[r].rows = 1
        /\ q.intent = req[r].intent /\ q.status = PaymentStatusSucceeded
        /\ p.id = q.participant_id /\ p.status = ParticipantStatusLeft

\* C29: a participant in pending_payment whose earlier payments are all
\* settled (failed after a charge-failed event, or succeeded before the user
\* left and rejoined) can pay again: unless Stripe refuses the intent,
\* CreatePaymentIntent succeeds and adds a new pending payment row linked to
\* the same participant
RetryAfterFailedCharge ==
    [][\A r \in DOMAIN req :
         (/\ Answers(r, "CreatePaymentIntent")
          /\ req[r].pc = "cp_create"
          /\ req'[r].err # ErrStripeCreate
          /\ ride.present
          /\ \E p \in participants :
                p.id = req[r].pid /\ p.status = ParticipantStatusPendingPayment
          /\ \A q \in payments :
                q.participant_id = req[r].pid =>
                   q.status \in {PaymentStatusFailed, PaymentStatusSucceeded}) =>
            /\ req'[r].err = ErrNil
            /\ \E n \in payments' \ payments :
                  /\ n.participant_id = req[r].pid
                  /\ n.status = PaymentStatusPending
                  /\ payments' = payments \cup {n} ]_vars

\* C30: an automatic join of a user whose row is left moves the row to
\* active only together with a new succeeded payment row of that participant
\* written in the same step; when the join fails the row stays left
AutomaticRejoinCharged ==
    [][\A r \in DOMAIN req, p \in participants :
         (/\ Answers(r, "JoinRideAutomatically")
          /\ p.user_id = req'[r].user
          /\ p.status = ParticipantStatusLeft) =>
            IF req'[r].err = ErrNil
              THEN /\ [p EXCEPT !.status = ParticipantStatusActive] \in participants'
                   /\ \E n \in payments' \ payments :
                         /\ n.participant_id = p.id /\ n.user_id = p.user_id
                         /\ n.status = PaymentStatusSucceeded
              ELSE p \in participants' ]_vars

\* the error a join request of operation o by user u receives in the current
\* state when no charge is involved
JoinResult(o, u) ==
    LET found == RowsOf(participants, u)
        row == CHOOSE p \in found : TRUE
    IN
    IF ~ride.present THEN ErrRideNotFound
    ELSE IF ride.status # RideStatusActive
      THEN (IF o = "JoinRide" THEN ErrNotActiveJoin ELSE ErrNotOpen)
    ELSE IF o = "JoinRide"
      THEN IF JoinRideChecks(u) # ErrNil THEN JoinRideChecks(u)
           ELSE IF found # {} /\ row.status \in {ParticipantStatusActive, ParticipantStatusPendingPayment}
             THEN ErrAlreadyJoinedPending
           ELSE ErrNil
    ELSE IF ValidateRideForJoiningTx(u) # ErrNil THEN ValidateRideForJoiningTx(u)
    ELSE IF u \notin hasPaymentMethod THEN ErrNoPaymentMethod
    ELSE IF found # {} /\ row.status \in {ParticipantStatusActive, ParticipantStatusPendingPayment}
      THEN ErrAlreadyParticipating
    ELSE ErrNil

\* C31: a join request, manual or automatic, that is answered with an error
\* (a rejection, or a failure before the commit) leaves the ride, the
\* participants, the payments and the users as they were, and a rejected
\* request issued again in the state it leaves receives the same rejection
RejectedJoinChangesNothing ==
    [][\A r \in DOMAIN req :
         (/\ Answers(r, "JoinRide") \/ Answers(r, "JoinRideAutomatically")
          /\ req'[r].err # ErrNil) =>
            /\ db' = db
            /\ \A o \in {"JoinRide", "JoinRideAutomatically"}, u \in Users :
                  (o = req'[r].op /\ u = req'[r].user /\ req'[r].err \in JoinRejections) =>
                     JoinResult(o, u)' = req'[r].err ]_vars

\* a join was rejected as full on a ride that has a participant and a payment
JoinRejectedOnFullRide ==
    \E r \in DOMAIN req :
        /\ req[r].pc = "done" /\ req[r].op \in {"JoinRide", "JoinRideAutomatically"}
        /\ req[r].err = ErrFull
        /\ RowsOf(participants, req[r].user) = {}
        /\ participants # {} /\ payments # {}

Answered(e) == {r \in DOMAIN req : req[r].pc \in {"done", "answered"} /\ req[r].err = e}

\* C2: of N + k concurrent automatic joins on a fresh ride of N seats, by
\* distinct users with a stored payment method whose charge succeeds, no
\* attempt is answered anything but success or Full, never more than N succeed,
\* and once all are answered exactly N have succeeded, exactly k were rejected
\* with Full, and there are N active participants, each with its own
\* succeeded payment, and no other payment
ExactlyNAutomaticJoins ==
    /\ \A r \in DOMAIN req : req[r].pc \in {"done", "answered"} => req[r].err \in {ErrNil, ErrFull}
    /\ Cardinality(Answered(ErrNil)) <= ride.total_seats
    /\ ActiveCount(participants) <= ride.total_seats
    /\ (\A r \in DOMAIN req : req[r].pc = "answered") =>
          /\ Cardinality(Answered(ErrNil)) = ride.total_seats
          /\ Cardinality(Answered(ErrFull)) = Cardinality(DOMAIN req) - ride.total_seats
          /\ ActiveCount(participants) = ride.total_seats
          /\ Cardinality(participants) = ride.total_seats
          /\ Cardinality(payments) = ride.total_seats
          /\ \A r \in Answered(ErrNil) :
                \E p \in participants :
                   /\ p.user_id = req[r].user /\ p.status = ParticipantStatusActive
                   /\ \E q \in payments : q.participant_id = p.id /\ q.status = PaymentStatusSucceeded

\* all N + k attempts are answered, one of them with Full
AllAutomaticJoinsAnswered ==
    /\ \A r \in DOMAIN req : req[r].pc = "answered"
    /\ Answered(ErrFull) # {}
    /\ Answered(ErrNil) # {}

\* the deliveries of intent i
DeliveriesOf(i) == {r \in DOMAIN req : req[r].intent = i}

\* C32: concurrent deliveries of charge-succeeded for one pending payment are
\* serialized: at most one of them updates the payment, only that one updates
\* the participant, every delivery is acknowledged, and once all are answered
\* exactly one has made the updates, the others none, and the rows are those
\* a single delivery leaves (payment succeeded; participant active, or still
\* left when the user had left)
DeliveriesSerialized ==
    /\ \A i \in 1..intents :
          Cardinality({r \in DeliveriesOf(i) : req[r].cnt = 1}) <= 1
    /\ \A r \in DOMAIN req :
          /\ req[r].rows > req[r].cnt => req[r].cnt = 1
          /\ req[r].pc \in {"done", "answered"} =>
                /\ req[r].err = ErrNil
                /\ PaymentHandler_HandleStripeWebhook(req[r].err) = StatusOK
    /\ (\A r \in DOMAIN req : req[r].pc = "answered") =>
          \A i \in 1..intents : DeliveriesOf(i) # {} =>
             \E w \in DeliveriesOf(i), q \in payments, p \in participants :
                /\ q.intent = i /\ q.status = PaymentStatusSucceeded
                /\ p.id = q.participant_id
                /\ p.status \in {ParticipantStatusActive, ParticipantStatusLeft}
                /\ req[w].cnt = 1
                /\ req[w].rows = (IF p.status = ParticipantStatusActive THEN 2 ELSE 1)
                /\ \A r \in DeliveriesOf(i) \ {w} : req[r].cnt = 0 /\ req[r].rows = 0

\* two deliveries of the same intent are answered: one made both updates,
\* the other none
BothDeliveriesAnswered ==
    /\ \A r \in DOMAIN req : req[r].pc = "answered"
    /\ \E a \in DOMAIN req, b \in DOMAIN req :
          /\ a # b /\ req[a].intent = req[b].intent
          /\ req[a].rows = 2 /\ req[b].rows = 0

\* C33: with fair scheduling no two operations wait for each other's locks,
\* and every started join and deletion ends (commits or rolls back)
ProgressUnderLocking ==
    /\ [](\A j \in 1..LockReq, d \in 1..LockReq : ~LockCycle(j, d))
    /\ \A r \in 1..LockReq :
          (req[r].pc \notin {"idle", "done", "answered"}) ~> (req[r].pc \in {"done", "answered"})

\* C34: the capacity gate of a join, run while the join holds the ride row,
\* answers Full exactly when the rows in status active number total_seats or
\* more; rows in pending_payment, left or cancelled_ride never count
CapacityFromActiveRows ==
    [][\A r \in DOMAIN req :
         (req[r].pc \in {"jr_tx", "ja_tx"} /\ req'[r].pc # req[r].pc) =>
            /\ rideLock = r
            /\ (req'[r].err = ErrFull) <=>
                  (Cardinality({p \in participants : p.status = ParticipantStatusActive})
                     >= ride.total_seats)]_vars

\* a join has passed the gate of a ride on which another user's row is in
\* status left and the rows outnumber the seats
JoinAfterLeavePassesGate ==
    \E r \in DOMAIN req, p \in participants :
        /\ req[r].pc = "done" /\ req[r].op \in {"JoinRide", "JoinRideAutomatically"}
        /\ req[r].err = ErrNil
        /\ p.status = ParticipantStatusLeft /\ p.user_id # req[r].user
        /\ Cardinality(participants) >= ride.total_seats + 1

\* C35: a charge-succeeded delivery for an intent whose payment is failed
\* leaves the payment failed and the linked participant as it is, and a
\* delivery that changes a participant leaves the payment of its intent
\* succeeded
FailedPaymentNeverActivates ==
    [][\A r \in DOMAIN req : Answers(r, "handlePaymentIntentSucceeded") =>
         /\ \A q \in payments, p \in participants :
               (/\ q.intent = req'[r].intent
                /\ q.status = PaymentStatusFailed
                /\ p.id = q.participant_id) => (q \in payments' /\ p \in participants')
         /\ participants' # participants =>
               \E q \in payments' : /\ q.intent = req'[r].intent
                                    /\ q.status = PaymentStatusSucceeded]_vars

\* C36: the step of DeleteRide that removes the ride row finds no participant
\* in status active, and the count DeleteRide took is the count at that step
NoHardDeleteOfActiveRide ==
    [][\A r \in DOMAIN req :
         (Deletes(r) /\ ride.present /\ ~ride'.present) =>
            /\ \A p \in participants : p.status # ParticipantStatusActive
            /\ req'[r].cnt = Cardinality({p \in participants : p.status = ParticipantStatusActive})
      ]_vars

\* C37: an automatic join whose off-session charge has succeeded ends with
\* success, a succeeded payment row carrying the intent of the charge and an
\* active participant row of the caller linked to it
ChargedJoinIsRecorded ==
    [][\A r \in DOMAIN req :
         (req[r].pc = "ja_charge" /\ req'[r].pc = "done" /\ intents' # intents) =>
            /\ req'[r].err = ErrNil
            /\ \E q \in payments', p \in participants' :
                  /\ q.intent = intents' /\ q.status = PaymentStatusSucceeded
                  /\ q.participant_id = p.id
                  /\ p.user_id = req'[r].user /\ p.status = ParticipantStatusActive
      ]_vars
====
